---- MODULE Spec2Model ----
(***************************************************************************)
(* State-machine model of @gracile-labs/functional: the render-scope       *)
(* bookkeeping of src/src/functional.ts, the hooks of src/src/hooks.ts and *)
(* the context facade of src/src/context.ts.                               *)
(*                                                                         *)
(* The program is a library: its callers (render functions, top-level      *)
(* code, effect bodies) are modelled as a nondeterministic environment     *)
(* that, at each step, makes one call into the library or returns/raises   *)
(* out of the innermost render function.  JavaScript's run-to-completion   *)
(* event loop is modelled by `phase`: synchronous code runs in "sync";     *)
(* when the call stack is empty the task may end and the microtask queue   *)
(* is drained ("drain") before any further synchronous code runs.          *)
(***************************************************************************)
EXTENDS Integers, Sequences, FiniteSets, TLC

\* ---------------------------------------------------------------- bounds
\* Number of caller-supplied host objects (and component instances).
NumHosts == 1
\* Spec (every operation): withFunctional calls, cells, context keys,
\* effect closures, hook cursor and context frames per host.
MaxPasses == 2
MaxCells == 2
MaxKeys == 1
MaxEffects == 1
MaxSlots == 1
MaxFrames == 1
\* SpecState: withFunctional calls, cells and hook cursor.
StatePasses == 2
StateCells == 3
StateSlots == 2
\* SpecEffects: withFunctional calls and effect closures.
FxPasses == 2
FxEffects == 2
\* SpecContext: withFunctional calls, cells and context keys.
CtxPasses == 3
CtxCells == 3
CtxKeys == 2

\* SpecSlots: withFunctional calls, cells, hook cursor, effect closures,
\* context keys and context frames per host.
SlotPasses == 2
SlotCells == 2
SlotSlots == 2
SlotEffects == 1
SlotKeys == 1
SlotFrames == 1

\* SpecReducer: withFunctional calls, cells, hook cursor and dispatches.
RedPasses == 1
RedCells == 1
RedSlots == 1
RedDispatches == 2

\* SpecNested: withFunctional calls, cells, hook cursor, effect closures,
\* context keys and context frames per host.
NestPasses == 2
NestCells == 3
NestSlots == 2
NestEffects == 1
NestKeys == 1
NestFrames == 1

\* SpecInEffect: withFunctional calls, cells, hook cursor, effect closures,
\* context keys and context frames per host.
BodyPasses == 2
BodyCells == 2
BodySlots == 1
BodyEffects == 2
BodyKeys == 1
BodyFrames == 1

\* SpecOrder: withFunctional calls and effect closures.
OrdPasses == 3
OrdEffects == 3

\* ------------------------------------------------------------- constants
\* `null`: no render host is current.
Null == 0
\* `undefined` where a cell is expected (an empty slot, a key with no default).
NoCell == 0
\* The JavaScript values `undefined` and `null`.
Undefined == "undefined"
NullValue == "null"
\* Proper values handed to hooks and providers.
Values == {"a", "b"}
\* Actions handed to dispatch, and the reducers handed to useReducer:
\* every function from a state and an action to a state.
Actions == {"x", "y"}
Reducers == [Values \X Actions -> Values]
\* What effect bodies do when they are run.
Bodies == {"void", "cleanup", "raise"}

\* Hosts supplied by the caller; the host `{}` created by the default
\* parameter of the p-th withFunctional call is NumHosts + p.
NamedHosts == 1..NumHosts
FreshHost(p) == NumHosts + p

\* ------------------------------------------------------------- variables
VARIABLES
    manualSignalCtor,     \* FunctionalState.manualSignalCtor is set
    globalSignal,         \* globalThis.Signal is set
    currentRenderElement, \* functionalState.currentRenderElement
    storeMap,             \* host -> sequence of cell ids (NoCell: a hole)
    indexMap,             \* host -> hook cursor
    contextStackMap,      \* host -> sequence of frames (key -> cell id)
    effectMap,            \* host -> sequence of [run, cleanup]
    cells,                \* heap of Signal.State objects, by identity
    keys,                 \* heap of createContext closures: [default, defaultValue]
    effectFns,            \* heap of effect closures: [body, host, pass]
    stack,                \* call stack of active withFunctional calls,
                          \* with the locals of each render function
    lastGot,              \* host -> the cells its last completed pass got
    microtasks,           \* queueMicrotask queue: hosts of pending flushes
    phase,                \* "sync" | "drain"
    passes,               \* number of withFunctional calls made so far
    returned,             \* passes whose render function returned normally
    ran,                  \* log: effect closures in the order they were run
    cleaned,              \* log: cleanup callables that were invoked
    lastFlush,            \* the most recent flush: [host, log, records]
    ret                   \* outcome of the most recent call into the library

vars == << manualSignalCtor, globalSignal, currentRenderElement, storeMap,
           indexMap, contextStackMap, effectMap, cells, keys, effectFns,
           stack, lastGot, microtasks, phase, passes, returned, ran,
           cleaned, lastFlush, ret >>

storage == << storeMap, indexMap, contextStackMap, effectMap >>
heap == << cells, keys, effectFns >>
ctors == << manualSignalCtor, globalSignal >>
loop == << microtasks, phase, ran, cleaned, lastFlush >>
calls == << currentRenderElement, stack, lastGot, passes, returned >>

\* --------------------------------------------------------------- helpers
\* WeakMap / Map operations on functions with a growing domain.
Has(m, k) == k \in DOMAIN m
Put(m, k, v) == [x \in (DOMAIN m) \cup {k} |-> IF x = k THEN v ELSE m[x]]
Del(m, k) == [x \in (DOMAIN m) \ {k} |-> m[x]]
EmptyMap == [x \in {} |-> 0]

\* The maps are WeakMaps: an entry whose key nothing refers to any more is
\* gone.  A host made by withFunctional's default parameter is referred to
\* only by its own call and by the flush that call queues.
Collected(m, host) == IF host \in NamedHosts THEN m ELSE Del(m, host)

\* JavaScript `array[i] = v` (0-based i) on a sequence: pads with holes.
SetAt(s, i, v) ==
    [j \in 1..(IF i + 1 > Len(s) THEN i + 1 ELSE Len(s)) |->
        IF j = i + 1 THEN v ELSE IF j <= Len(s) THEN s[j] ELSE NoCell]

\* JavaScript `array[i]` (0-based i): NoCell for a hole or past the end.
At(s, i) == IF i + 1 \in 1..Len(s) THEN s[i + 1] ELSE NoCell

Range(s) == {s[i] : i \in 1..Len(s)}

\* What the most recent step handed back to the caller: the operation, its
\* outcome ("ok" or the error raised), and the cell, slot index and context
\* key of the result.
Ret(op, out, cell, idx, key) ==
    [op |-> op, out |-> out, cell |-> cell, idx |-> idx, key |-> key]

\* A call that returned normally with nothing the model looks at.
Void == Ret("void", "ok", 0, 0, 0)

\* utils.guard(message, item): throws when `item` is falsy.
guard(item) == item # Null

\* A Signal getter that prefers globalThis.Signal to the injected one.
SignalGlobalFirst ==
    IF globalSignal THEN "global"
    ELSE IF manualSignalCtor THEN "manual"
    ELSE "none"

\* FunctionalState.Signal getter: the injected constructor, else the global
\* one, else the setup error.
Signal ==
    IF manualSignalCtor THEN "manual"
    ELSE IF globalSignal THEN "global"
    ELSE "none"

\* new Signal.State(v) on the heap: `origin` is the call site ("state",
\* "provider" or "default"), `key` the context, `host` the render host it
\* was made for, `pass` the render pass that made it (0 outside any),
\* `scope` the pass that a Provider opens for it, `seed` the value last
\* written by the constructor or a setter and `log` the dispatches since.
NewCell(v, origin, key, host) ==
    [value |-> v, ctor |-> Signal, origin |-> origin, key |-> key,
     host |-> host, seed |-> v, log |-> << >>,
     pass |-> IF stack = << >> THEN 0 ELSE stack[Len(stack)].pass,
     scope |-> IF origin = "provider" THEN passes + 1 ELSE 0]

Top == stack[Len(stack)]

\* ------------------------------------------------------------------ Init
Init ==
    /\ manualSignalCtor = FALSE
    /\ globalSignal \in BOOLEAN
    /\ currentRenderElement = Null
    /\ storeMap = EmptyMap
    /\ indexMap = EmptyMap
    /\ contextStackMap = EmptyMap
    /\ effectMap = EmptyMap
    /\ cells = << >>
    /\ keys = << >>
    /\ effectFns = << >>
    /\ stack = << >>
    /\ lastGot = EmptyMap
    /\ microtasks = << >>
    /\ phase = "sync"
    /\ passes = 0
    /\ returned = {}
    /\ ran = << >>
    /\ cleaned = << >>
    /\ lastFlush = [host |-> Null, log |-> << >>, records |-> << >>]
    /\ ret = Void

\* The state after top-level code has called setSignalConstructor(Signal).
InitReady ==
    /\ manualSignalCtor = TRUE
    /\ globalSignal = FALSE
    /\ currentRenderElement = Null
    /\ storeMap = EmptyMap
    /\ indexMap = EmptyMap
    /\ contextStackMap = EmptyMap
    /\ effectMap = EmptyMap
    /\ cells = << >>
    /\ keys = << >>
    /\ effectFns = << >>
    /\ stack = << >>
    /\ lastGot = EmptyMap
    /\ microtasks = << >>
    /\ phase = "sync"
    /\ passes = 0
    /\ returned = {}
    /\ ran = << >>
    /\ cleaned = << >>
    /\ lastFlush = [host |-> Null, log |-> << >>, records |-> << >>]
    /\ ret = Void

\* ------------------------------------------------- functional.ts: scopes
\* setSignalConstructor(ctor)
setSignalConstructor ==
    /\ phase = "sync"
    /\ manualSignalCtor' = TRUE
    /\ ret' = Void
    /\ UNCHANGED << globalSignal, storage, heap, loop, calls >>

\* The frame pushed by provideContext: a copy of the top frame (or an
\* empty map) with key -> cell set.
Pushed(frames, key, cell) ==
    Append(frames,
           Put(IF frames = << >> THEN EmptyMap ELSE frames[Len(frames)],
               key, cell))

\* An entry that resets the hook cursor of the host it makes current and
\* of the host that was current before.
EnterResetsBoth(host, kind, key, cell, value, inst) ==
    LET reset == Put(contextStackMap, host, << >>) IN
    /\ stack' = Append(
            [i \in 1..Len(stack) |->
                [stack[i] EXCEPT !.reentered = @ \/ stack[i].host = host]],
            [host |-> host, previous |-> currentRenderElement,
             pass |-> passes + 1, kind |-> kind, key |-> key, cell |-> cell,
             value |-> value, inst |-> inst, reentered |-> FALSE,
             got |-> << >>])
    /\ passes' = passes + 1
    /\ currentRenderElement' = host
    /\ indexMap' = IF currentRenderElement = Null
                   THEN Put(indexMap, host, 0)
                   ELSE Put(Put(indexMap, currentRenderElement, 0), host, 0)
    /\ contextStackMap' =
            IF kind = "Provider"
            THEN Put(reset, host, Pushed(reset[host], key, cell))
            ELSE reset

\* The entry of withFunctional(renderFunction, host), up to the call of
\* renderFunction: save the current host, make `host` current, reset the
\* hook cursor and the context stack of `host`.  `kind`, `key`, `cell`,
\* `value` and `inst` are the locals of the caller's closure; the render
\* function of a Provider starts with provideContext(context, signal).
Enter(host, kind, key, cell, value, inst) ==
    LET reset == Put(contextStackMap, host, << >>) IN
    /\ stack' = Append(
            [i \in 1..Len(stack) |->
                [stack[i] EXCEPT !.reentered = @ \/ stack[i].host = host]],
            [host |-> host, previous |-> currentRenderElement,
             pass |-> passes + 1, kind |-> kind, key |-> key, cell |-> cell,
             value |-> value, inst |-> inst, reentered |-> FALSE,
             got |-> << >>])
    /\ passes' = passes + 1
    /\ currentRenderElement' = host
    /\ indexMap' = Put(indexMap, host, 0)
    /\ contextStackMap' =
            IF kind = "Provider"
            THEN Put(reset, host, Pushed(reset[host], key, cell))
            ELSE reset

\* withFunctional(renderFunction, host): `host` is a caller-supplied object,
\* or omitted (Null here), in which case the default parameter makes a
\* fresh object.  WithFunctional({host, children}) is the same call.
withFunctional(host) ==
    /\ phase = "sync"
    /\ Enter(IF host = Null THEN FreshHost(passes + 1) ELSE host,
             "withFunctional", 0, NoCell, Undefined, Null)
    /\ ret' = Void
    /\ UNCHANGED << storeMap, effectMap, heap, ctors, loop, lastGot,
                    returned >>

\* What the callers of a pass that has ended know of the cells its host
\* hands out: the results of that pass, unless a nested pass on the same
\* host moved the cursor under it.
Ended(frame) ==
    IF frame.host \notin NamedHosts \/ frame.reentered
    THEN Del(lastGot, frame.host)
    ELSE Put(lastGot, frame.host, frame.got)

\* A withFunctional that returns without queueing the flush.
RenderReturnsUnflushed ==
    /\ phase = "sync"
    /\ stack # << >>
    /\ currentRenderElement' = Top.previous
    /\ returned' = returned \cup {Top.pass}
    /\ stack' = SubSeq(stack, 1, Len(stack) - 1)
    /\ lastGot' = Ended(Top)
    /\ ret' = Ret("withFunctional", "ok", NoCell, 0, 0)
    /\ UNCHANGED << storage, heap, ctors, loop, passes >>

\* A withFunctional that restores the previous host only on the raising
\* path: when renderFunction returns, the current host stays its own.
RenderReturnsUnrestored ==
    /\ phase = "sync"
    /\ stack # << >>
    /\ microtasks' = Append(microtasks, Top.host)
    /\ returned' = returned \cup {Top.pass}
    /\ stack' = SubSeq(stack, 1, Len(stack) - 1)
    /\ lastGot' = Ended(Top)
    /\ ret' = Ret("withFunctional", "ok", NoCell, 0, 0)
    /\ UNCHANGED << currentRenderElement, storage, heap, ctors, phase, ran,
                    cleaned, lastFlush, passes >>

\* A withFunctional whose flush goes ahead of the flushes already pending.
RenderReturnsAhead ==
    /\ phase = "sync"
    /\ stack # << >>
    /\ microtasks' = << Top.host >> \o microtasks
    /\ currentRenderElement' = Top.previous
    /\ returned' = returned \cup {Top.pass}
    /\ stack' = SubSeq(stack, 1, Len(stack) - 1)
    /\ lastGot' = Ended(Top)
    /\ storeMap' = Collected(storeMap, Top.host)
    /\ indexMap' = Collected(indexMap, Top.host)
    /\ contextStackMap' = Collected(contextStackMap, Top.host)
    /\ ret' = Ret("withFunctional", "ok", NoCell, 0, 0)
    /\ UNCHANGED << effectMap, heap, ctors, phase, ran, cleaned, lastFlush,
                    passes >>

\* renderFunction returns: the flush is queued as a microtask, the result
\* is returned and the `finally` block restores the previous host.
RenderReturns ==
    /\ phase = "sync"
    /\ stack # << >>
    /\ microtasks' = Append(microtasks, Top.host)
    /\ currentRenderElement' = Top.previous
    /\ returned' = returned \cup {Top.pass}
    /\ stack' = SubSeq(stack, 1, Len(stack) - 1)
    /\ lastGot' = Ended(Top)
    /\ storeMap' = Collected(storeMap, Top.host)
    /\ indexMap' = Collected(indexMap, Top.host)
    /\ contextStackMap' = Collected(contextStackMap, Top.host)
    /\ ret' = Ret("withFunctional", "ok", NoCell, 0, 0)
    /\ UNCHANGED << effectMap, heap, ctors, phase, ran, cleaned, lastFlush,
                    passes >>

\* A withFunctional without the `finally` block: when renderFunction raises
\* the current host stays what the call made it.
RenderRaisesUnrestored ==
    /\ phase = "sync"
    /\ stack # << >>
    /\ stack' = SubSeq(stack, 1, Len(stack) - 1)
    /\ lastGot' = Ended(Top)
    /\ ret' = Ret("withFunctional", "raise", NoCell, 0, 0)
    /\ UNCHANGED << currentRenderElement, storage, heap, ctors, loop, passes,
                    returned >>

\* renderFunction raises: no flush is queued, the `finally` block restores
\* the previous host and the exception propagates to the caller.
RenderRaises ==
    /\ phase = "sync"
    /\ stack # << >>
    /\ currentRenderElement' = Top.previous
    /\ stack' = SubSeq(stack, 1, Len(stack) - 1)
    /\ lastGot' = Ended(Top)
    /\ storeMap' = Collected(storeMap, Top.host)
    /\ indexMap' = Collected(indexMap, Top.host)
    /\ contextStackMap' = Collected(contextStackMap, Top.host)
    /\ effectMap' = Collected(effectMap, Top.host)
    /\ ret' = Ret("withFunctional", "raise", NoCell, 0, 0)
    /\ UNCHANGED << heap, ctors, loop, passes, returned >>

\* ------------------------------------------------------- hooks.ts: state
\* The call stack once the innermost render function holds `cell`, the
\* result of one more slot-consuming call (NoCell when the call raised).
Got(cell) ==
    IF stack = << >> THEN stack
    ELSE [stack EXCEPT ![Len(stack)].got = Append(@, cell)]

\* A useState that never looks at the slot under the cursor: every call
\* makes a cell from `initial`.
UseStateBodyReseeds(initial, op) ==
    IF ~guard(currentRenderElement)
    THEN /\ ret' = Ret(op, "outside", NoCell, 0, 0)
         /\ UNCHANGED << storage, heap, stack >>
    ELSE LET host == currentRenderElement
             store == IF Has(storeMap, host) THEN storeMap[host] ELSE << >>
             index == indexMap[host]
         IN /\ indexMap' = Put(indexMap, host, index + 1)
            /\ UNCHANGED << contextStackMap, effectMap, keys, effectFns >>
            /\ cells' = Append(cells, NewCell(initial, "state", 0, host))
            /\ storeMap' = Put(storeMap, host,
                                SetAt(store, index, Len(cells) + 1))
            /\ ret' = Ret("useState", "ok", Len(cells) + 1, index, 0)
            /\ stack' = Got(ret'.cell)

\* useState(initial); `op` names the caller (useState or useReducer).
UseStateBody(initial, op) ==
    IF ~guard(currentRenderElement)
    THEN /\ ret' = Ret(op, "outside", NoCell, 0, 0)
         /\ UNCHANGED << storage, heap, stack >>
    ELSE LET host == currentRenderElement
             store == IF Has(storeMap, host) THEN storeMap[host] ELSE << >>
             index == indexMap[host]
         IN /\ indexMap' = Put(indexMap, host, index + 1)
            /\ UNCHANGED << contextStackMap, effectMap, keys, effectFns >>
            /\ IF At(store, index) = NoCell
               THEN IF Signal = "none"
                    THEN /\ storeMap' = Put(storeMap, host, store)
                         /\ cells' = cells
                         /\ ret' = Ret(op, "setup", NoCell, index, 0)
                    ELSE /\ cells' = Append(cells,
                                            NewCell(initial, "state", 0, host))
                         /\ storeMap' = Put(storeMap, host,
                                SetAt(store, index, Len(cells) + 1))
                         /\ ret' = Ret("useState", "ok", Len(cells) + 1, index, 0)
               ELSE /\ storeMap' = Put(storeMap, host, store)
                    /\ cells' = cells
                    /\ ret' = Ret("useState", "ok", At(store, index), index, 0)
            /\ stack' = Got(ret'.cell)

useState(initial) ==
    /\ phase = "sync"
    /\ UseStateBody(initial, "useState")
    /\ UNCHANGED << ctors, loop, currentRenderElement, lastGot, passes,
                    returned >>

\* useReducer(reducer, initial): one useState slot; dispatch is a closure.
useReducer(initial) ==
    /\ phase = "sync"
    /\ UseStateBody(initial, "useReducer")
    /\ UNCHANGED << ctors, loop, currentRenderElement, lastGot, passes,
                    returned >>

\* The setter returned by useState for cell `c`: sig.set(v).
setState(c, v) ==
    /\ phase = "sync"
    /\ c \in 1..Len(cells)
    /\ cells[c].origin = "state"
    /\ cells' = [cells EXCEPT ![c].value = v, ![c].seed = v,
                              ![c].log = << >>]
    /\ ret' = Void
    /\ UNCHANGED << storage, keys, effectFns, ctors, loop, calls >>

\* A dispatch that applies the reducer to the value the cell was made
\* with, not to the value it holds.
dispatchStale(c, reducer, action) ==
    /\ phase = "sync"
    /\ c \in 1..Len(cells)
    /\ cells[c].origin = "state"
    /\ cells' = [cells EXCEPT
                    ![c].value = reducer[<< cells[c].seed, action >>],
                    ![c].log = Append(@, [reducer |-> reducer,
                                          action |-> action])]
    /\ ret' = Void
    /\ UNCHANGED << storage, keys, effectFns, ctors, loop, calls >>

\* The dispatch returned by useReducer(reducer, _) for the slot that holds
\* cell `c`: state.set(reducer(state.get(), action)).
dispatch(c, reducer, action) ==
    /\ phase = "sync"
    /\ c \in 1..Len(cells)
    /\ cells[c].origin = "state"
    /\ cells' = [cells EXCEPT
                    ![c].value = reducer[<< cells[c].value, action >>],
                    ![c].log = Append(@, [reducer |-> reducer,
                                          action |-> action])]
    /\ ret' = Void
    /\ UNCHANGED << storage, keys, effectFns, ctors, loop, calls >>

\* A useMemo/useCallback that takes a position in the call order, moving
\* the cursor of the current host.
UseComputedCounted(op) ==
    /\ phase = "sync"
    /\ ret' = IF ~guard(currentRenderElement)
              THEN Ret(op, "outside", NoCell, 0, 0)
              ELSE IF Signal = "none"
                   THEN Ret(op, "setup", NoCell, 0, 0)
                   ELSE Ret("computed", "ok", NoCell, 0, 0)
    /\ indexMap' = IF guard(currentRenderElement)
                   THEN Put(indexMap, currentRenderElement,
                            indexMap[currentRenderElement] + 1)
                   ELSE indexMap
    /\ UNCHANGED << storeMap, contextStackMap, effectMap, heap, ctors, loop,
                    calls >>

\* useMemo(fn) and useCallback(fn): a guard, then a new Signal.Computed
\* that no library state refers to.
UseComputed(op) ==
    /\ phase = "sync"
    /\ ret' = IF ~guard(currentRenderElement)
              THEN Ret(op, "outside", NoCell, 0, 0)
              ELSE IF Signal = "none"
                   THEN Ret(op, "setup", NoCell, 0, 0)
                   ELSE Ret("computed", "ok", NoCell, 0, 0)
    /\ UNCHANGED << storage, heap, ctors, loop, calls >>

useMemo == UseComputed("useMemo")

useCallback == UseComputed("useCallback")

\* ----------------------------------------------------- hooks.ts: effects
\* A useEffect that appends to the queue of the outermost active pass's
\* host instead of the current host's.
UseEffectBodyOutermost(body, op) ==
    IF ~guard(currentRenderElement)
    THEN /\ ret' = Ret(op, "outside", NoCell, 0, 0)
         /\ UNCHANGED << storage, heap >>
    ELSE LET host == IF stack = << >> THEN currentRenderElement
                     ELSE stack[1].host
             effects == IF Has(effectMap, host) THEN effectMap[host]
                        ELSE << >>
             fn == Len(effectFns) + 1
         IN /\ effectFns' = Append(effectFns,
                    [body |-> body, host |-> host,
                     pass |-> IF stack = << >> THEN 0 ELSE Top.pass])
            /\ effectMap' = Put(effectMap, host,
                    Append(effects, [run |-> fn, cleanup |-> 0]))
            /\ ret' = Void
            /\ UNCHANGED << storeMap, indexMap, contextStackMap, cells,
                            keys >>

\* useEffect(function_): `body` is what function_ does when it is run,
\* `op` names the caller (useEffect, onMount or onCleanup).
UseEffectBody(body, op) ==
    IF ~guard(currentRenderElement)
    THEN /\ ret' = Ret(op, "outside", NoCell, 0, 0)
         /\ UNCHANGED << storage, heap >>
    ELSE LET host == currentRenderElement
             effects == IF Has(effectMap, host) THEN effectMap[host]
                        ELSE << >>
             fn == Len(effectFns) + 1
         IN /\ effectFns' = Append(effectFns,
                    [body |-> body, host |-> host,
                     pass |-> IF stack = << >> THEN 0 ELSE Top.pass])
            /\ effectMap' = Put(effectMap, host,
                    Append(effects, [run |-> fn, cleanup |-> 0]))
            /\ ret' = Void
            /\ UNCHANGED << storeMap, indexMap, contextStackMap, cells,
                            keys >>

\* A useEffect that queues a flush of its own for each effect.
useEffectSchedules(body) ==
    /\ phase = "sync"
    /\ UseEffectBody(body, "useEffect")
    /\ microtasks' = IF guard(currentRenderElement)
                     THEN Append(microtasks, currentRenderElement)
                     ELSE microtasks
    /\ UNCHANGED << ctors, phase, ran, cleaned, lastFlush, calls >>

useEffect(body) ==
    /\ phase = "sync"
    /\ UseEffectBody(body, "useEffect")
    /\ UNCHANGED << ctors, loop, calls >>

\* onMount(fn): useEffect(() => { fn(); }) -- whatever fn returns is dropped.
onMount(body) ==
    /\ phase = "sync"
    /\ UseEffectBody(IF body = "cleanup" THEN "void" ELSE body, "onMount")
    /\ UNCHANGED << ctors, loop, calls >>

\* onCleanup(fn): useEffect(() => fn) -- fn is returned, not called.
onCleanup ==
    /\ phase = "sync"
    /\ UseEffectBody("cleanup", "onCleanup")
    /\ UNCHANGED << ctors, loop, calls >>

\* One effect record's run(): call the body; a returned callable is stored
\* as the cleanup of `effects.at(-1)`.
RunRecord(effects, i) ==
    IF effectFns[effects[i].run].body = "cleanup"
    THEN [effects EXCEPT ![Len(effects)].cleanup = effects[i].run]
    ELSE effects

\* A flush loop that walks the queue from its last record to its first.
RECURSIVE RunAllBackwards(_, _, _)
RunAllBackwards(effects, i, log) ==
    IF i > Len(effects)
    THEN [records |-> effects, log |-> log, raised |-> FALSE]
    ELSE LET k == Len(effects) + 1 - i
         IN IF effectFns[effects[k].run].body = "raise"
            THEN [records |-> effects, log |-> Append(log, effects[k].run),
                  raised |-> TRUE]
            ELSE RunAllBackwards(RunRecord(effects, k), i + 1,
                                 Append(log, effects[k].run))

\* `for (const effect of effects) effect?.run()` from record i on: the
\* records after the loop, the closures run, and whether a body raised.
RECURSIVE RunAll(_, _, _)
RunAll(effects, i, log) ==
    IF i > Len(effects)
    THEN [records |-> effects, log |-> log, raised |-> FALSE]
    ELSE IF effectFns[effects[i].run].body = "raise"
         THEN [records |-> effects, log |-> Append(log, effects[i].run),
               raised |-> TRUE]
         ELSE RunAll(RunRecord(effects, i), i + 1,
                     Append(log, effects[i].run))

\* A flush that, once the queue has run, calls the cleanups stored on its
\* records.
FlushCleans ==
    /\ phase = "drain"
    /\ microtasks # << >>
    /\ LET host == Head(microtasks)
       IN  /\ microtasks' = Tail(microtasks)
           /\ IF Has(effectMap, host)
              THEN LET r == RunAll(effectMap[host], 1, << >>)
                       stored == SelectSeq(r.records,
                                           LAMBDA rec : rec.cleanup # 0)
                   IN /\ ran' = ran \o r.log
                      /\ cleaned' = cleaned \o
                            [i \in 1..Len(stored) |-> stored[i].cleanup]
                      /\ lastFlush' = [host |-> host, log |-> r.log,
                                       records |-> r.records]
                      /\ effectMap' = IF r.raised
                                      THEN Collected(
                                        Put(effectMap, host, r.records),
                                        host)
                                      ELSE Del(effectMap, host)
                      /\ ret' = IF r.raised
                                THEN Ret("flush", "raise", NoCell, 0, 0)
                                ELSE Void
              ELSE /\ lastFlush' = [host |-> host, log |-> << >>,
                                    records |-> << >>]
                   /\ ret' = Void
                   /\ UNCHANGED << ran, effectMap, cleaned >>
    /\ UNCHANGED << storeMap, indexMap, contextStackMap, heap, ctors, calls,
                    phase >>

\* A flush that runs the queue of its host and leaves it in place.
FlushKeeps ==
    /\ phase = "drain"
    /\ microtasks # << >>
    /\ LET host == Head(microtasks)
       IN  /\ microtasks' = Tail(microtasks)
           /\ IF Has(effectMap, host)
              THEN LET r == RunAll(effectMap[host], 1, << >>)
                   IN /\ ran' = ran \o r.log
                      /\ lastFlush' = [host |-> host, log |-> r.log,
                                       records |-> r.records]
                      /\ effectMap' = Collected(
                                        Put(effectMap, host, r.records),
                                        host)
                      /\ ret' = IF r.raised
                                THEN Ret("flush", "raise", NoCell, 0, 0)
                                ELSE Void
              ELSE /\ lastFlush' = [host |-> host, log |-> << >>,
                                    records |-> << >>]
                   /\ ret' = Void
                   /\ UNCHANGED << ran, effectMap >>
    /\ UNCHANGED << storeMap, indexMap, contextStackMap, heap, ctors, calls,
                    phase, cleaned >>

\* The microtask queued by withFunctional for `host`: run the host's
\* queued effects, then delete the queue (not reached when a body raises).
Flush ==
    /\ phase = "drain"
    /\ microtasks # << >>
    /\ LET host == Head(microtasks)
       IN  /\ microtasks' = Tail(microtasks)
           /\ IF Has(effectMap, host)
              THEN LET r == RunAll(effectMap[host], 1, << >>)
                   IN /\ ran' = ran \o r.log
                      /\ lastFlush' = [host |-> host, log |-> r.log,
                                       records |-> r.records]
                      /\ effectMap' = IF r.raised
                                      THEN Collected(
                                        Put(effectMap, host, r.records),
                                        host)
                                      ELSE Del(effectMap, host)
                      /\ ret' = IF r.raised
                                THEN Ret("flush", "raise", NoCell, 0, 0)
                                ELSE Void
              ELSE /\ lastFlush' = [host |-> host, log |-> << >>,
                                    records |-> << >>]
                   /\ ret' = Void
                   /\ UNCHANGED << ran, effectMap >>
    /\ UNCHANGED << storeMap, indexMap, contextStackMap, heap, ctors, calls,
                    phase, cleaned >>

\* ------------------------------------------------------------ context.ts
\* createContext({defaultValue}): a fresh key; createContextKey wraps a
\* default other than `undefined` in a new cell.
createContext(defaultValue) ==
    /\ phase = "sync"
    /\ IF defaultValue = Undefined
       THEN /\ keys' = Append(keys, [default |-> NoCell,
                                     defaultValue |-> defaultValue])
            /\ cells' = cells
            /\ ret' = Void
       ELSE IF Signal = "none"
            THEN /\ ret' = Ret("createContext", "setup", NoCell, 0, 0)
                 /\ UNCHANGED << keys, cells >>
            ELSE /\ cells' = Append(cells,
                        NewCell(defaultValue, "default", Len(keys) + 1,
                                Null))
                 /\ keys' = Append(keys, [default |-> Len(cells) + 1,
                                          defaultValue |-> defaultValue])
                 /\ ret' = Void
    /\ UNCHANGED << storage, effectFns, ctors, loop, calls >>

\* provideContext(key, value)
provideContext(key, cell) ==
    /\ phase = "sync"
    /\ key \in 1..Len(keys)
    /\ cell \in 1..Len(cells)
    /\ IF ~guard(currentRenderElement)
       THEN /\ ret' = Ret("provideContext", "outside", NoCell, 0, key)
            /\ UNCHANGED contextStackMap
       ELSE IF ~Has(contextStackMap, currentRenderElement)
            THEN /\ ret' = Ret("provideContext", "invariant", NoCell, 0, key)
                 /\ UNCHANGED contextStackMap
            ELSE /\ contextStackMap' = Put(contextStackMap,
                        currentRenderElement,
                        Pushed(contextStackMap[currentRenderElement],
                               key, cell))
                 /\ ret' = Void
    /\ UNCHANGED << storeMap, indexMap, effectMap, heap, ctors, loop,
                    calls >>

\* A useContext without its guard: with no current host there is no stack
\* to read, and the lookup falls through to the key's default.
UseContextUnguarded(key) ==
    LET frames == IF Has(contextStackMap, currentRenderElement)
                  THEN contextStackMap[currentRenderElement]
                  ELSE << >>
    IN IF frames # << >> /\ Has(frames[Len(frames)], key)
       THEN Ret("use", "ok", frames[Len(frames)][key], 0, key)
       ELSE IF keys[key].default # NoCell
            THEN Ret("use", "ok", keys[key].default, 0, key)
            ELSE Ret("use", "missing", NoCell, 0, key)

\* A useContext that never reads the context stack.
UseContextDefaultOnly(key) ==
    IF ~guard(currentRenderElement)
    THEN Ret("use", "outside", NoCell, 0, key)
    ELSE IF keys[key].default # NoCell
         THEN Ret("use", "ok", keys[key].default, 0, key)
         ELSE Ret("use", "missing", NoCell, 0, key)

\* A useContext without its last throw: an unbound key with no default
\* yields `undefined`.
UseContextNoError(key) ==
    IF ~guard(currentRenderElement)
    THEN Ret("use", "outside", NoCell, 0, key)
    ELSE LET frames == IF Has(contextStackMap, currentRenderElement)
                       THEN contextStackMap[currentRenderElement]
                       ELSE << >>
         IN IF frames # << >> /\ Has(frames[Len(frames)], key)
            THEN Ret("use", "ok", frames[Len(frames)][key], 0, key)
            ELSE Ret("use", "ok", keys[key].default, 0, key)

\* useContext(key): the cell bound in the top frame of the current host,
\* else the key's default cell, else the missing-context error.
UseContextResult(key) ==
    IF ~guard(currentRenderElement)
    THEN Ret("use", "outside", NoCell, 0, key)
    ELSE LET frames == IF Has(contextStackMap, currentRenderElement)
                       THEN contextStackMap[currentRenderElement]
                       ELSE << >>
         IN IF frames # << >> /\ Has(frames[Len(frames)], key)
            THEN Ret("use", "ok", frames[Len(frames)][key], 0, key)
            ELSE IF keys[key].default # NoCell
                 THEN Ret("use", "ok", keys[key].default, 0, key)
                 ELSE Ret("use", "missing", NoCell, 0, key)

\* The `use` closure returned by createContext.
use(key) ==
    /\ phase = "sync"
    /\ key \in 1..Len(keys)
    /\ ret' = UseContextResult(key)
    /\ UNCHANGED << storage, heap, ctors, loop, calls >>

\* defaultValue ?? value
CoalesceDefaultFirst(value, defaultValue) ==
    IF defaultValue \in {Undefined, NullValue} THEN value ELSE defaultValue

\* value ?? defaultValue
Coalesce(value, defaultValue) ==
    IF value \in {Undefined, NullValue} THEN defaultValue ELSE value

\* The Provider closure returned by createContext, called with
\* {children, value}, up to the call of children(): a new cell holding
\* value ?? defaultValue, then withFunctional with no host argument, within
\* which provideContext(context, signal) runs first.
Provider(key, value) ==
    /\ phase = "sync"
    /\ key \in 1..Len(keys)
    /\ IF Signal = "none"
       THEN /\ ret' = Ret("Provider", "setup", NoCell, 0, key)
            /\ UNCHANGED << storage, heap, calls >>
       ELSE /\ cells' = Append(cells,
                    NewCell(Coalesce(value, keys[key].defaultValue),
                            "provider", key, Null))
            /\ Enter(FreshHost(passes + 1), "Provider", key, Len(cells) + 1,
                     value, Null)
            /\ ret' = Void
            /\ UNCHANGED << storeMap, effectMap, keys, effectFns, lastGot,
                            returned >>
    /\ UNCHANGED << ctors, loop >>

\* render() of the class returned by Functional(Base), called on component
\* instance `inst`: withFunctional(() => super.render()).
FunctionalRender(inst) ==
    /\ phase = "sync"
    /\ Enter(FreshHost(passes + 1), "render", 0, NoCell, Undefined, inst)
    /\ ret' = Void
    /\ UNCHANGED << storeMap, effectMap, heap, ctors, loop, lastGot,
                    returned >>

\* ------------------------------------------------------------ event loop
\* The synchronous task ends with an empty call stack: microtasks drain.
EndTask ==
    /\ phase = "sync"
    /\ stack = << >>
    /\ microtasks # << >>
    /\ phase' = "drain"
    /\ ret' = Void
    /\ UNCHANGED << storage, heap, ctors, calls, microtasks, ran, cleaned,
                    lastFlush >>

\* The microtask queue is empty: the next task may run.
DrainDone ==
    /\ phase = "drain"
    /\ microtasks = << >>
    /\ phase' = "sync"
    /\ ret' = Void
    /\ UNCHANGED << storage, heap, ctors, calls, microtasks, ran, cleaned,
                    lastFlush >>

\* ------------------------------------------------------- the environment
\* The callers of the library, each call within the bounds of the
\* specification that makes it.  Contexts are created and the Signal
\* constructor is injected by top-level code, before anything is rendered.
ProviderValues == Values \cup {Undefined, NullValue}

CallSetSignalConstructor ==
    /\ stack = << >>
    /\ ~manualSignalCtor
    /\ setSignalConstructor

CallCreateContext(maxKeys, maxCells) ==
    /\ passes = 0
    /\ Len(keys) < maxKeys
    /\ Len(cells) < maxCells
    /\ \E d \in ProviderValues : createContext(d)

CallWithFunctional(maxPasses) ==
    /\ passes < maxPasses
    /\ \E host \in NamedHosts \cup {Null} : withFunctional(host)

CallRender(maxPasses) ==
    /\ passes < maxPasses
    /\ \E inst \in NamedHosts : FunctionalRender(inst)

CallProvider(maxPasses, maxCells) ==
    /\ passes < maxPasses
    /\ Len(cells) < maxCells
    /\ \E key \in 1..Len(keys), v \in ProviderValues : Provider(key, v)

SlotsLeft(maxCells, maxSlots) ==
    /\ Len(cells) < maxCells
    /\ currentRenderElement # Null =>
            indexMap[currentRenderElement] < maxSlots

CallUseState(maxCells, maxSlots) ==
    /\ SlotsLeft(maxCells, maxSlots)
    /\ \E initial \in Values : useState(initial)

CallUseReducer(maxCells, maxSlots) ==
    /\ SlotsLeft(maxCells, maxSlots)
    /\ \E initial \in Values : useReducer(initial)

CallSetState == \E c \in 1..Len(cells), v \in Values : setState(c, v)

CallDispatch(maxDispatches) ==
    \E c \in 1..Len(cells), reducer \in Reducers, action \in Actions :
        /\ Len(cells[c].log) < maxDispatches
        /\ dispatch(c, reducer, action)

CallUseEffect(maxEffects) ==
    /\ Len(effectFns) < maxEffects
    /\ \E body \in Bodies : useEffect(body)

CallOnMount(maxEffects) ==
    /\ Len(effectFns) < maxEffects
    /\ \E body \in Bodies : onMount(body)

CallOnCleanup(maxEffects) ==
    /\ Len(effectFns) < maxEffects
    /\ onCleanup

CallProvideContext(maxFrames) ==
    /\ Has(contextStackMap, currentRenderElement) =>
            Len(contextStackMap[currentRenderElement]) < maxFrames
    /\ \E key \in 1..Len(keys), cell \in 1..Len(cells) :
            provideContext(key, cell)

CallUse == \E key \in 1..Len(keys) : use(key)

\* ------------------------------------------- hooks called by effect bodies
\* The body of an effect run by the flush in progress calls a hook
\* directly.  The call sees the state the flush runs in; the queue of the
\* flushed host, which the flush deletes when its loop ends, is the one
\* part of it that a later step of the same flush goes on to change.
InEffect ==
    /\ phase = "drain"
    /\ lastFlush.host # Null
    /\ lastFlush.log # << >>

\* useState(initial) in an effect body.
useStateInEffect(initial) ==
    /\ InEffect
    /\ UseStateBody(initial, "useState")
    /\ UNCHANGED << ctors, loop, currentRenderElement, lastGot, passes,
                    returned >>

\* useEffect(function_) in an effect body.
useEffectInEffect(body) ==
    /\ InEffect
    /\ UseEffectBody(body, "useEffect")
    /\ UNCHANGED << ctors, loop, calls >>

\* provideContext(key, value) in an effect body.
provideContextInEffect(key, cell) ==
    /\ InEffect
    /\ key \in 1..Len(keys)
    /\ cell \in 1..Len(cells)
    /\ IF ~guard(currentRenderElement)
       THEN /\ ret' = Ret("provideContext", "outside", NoCell, 0, key)
            /\ UNCHANGED contextStackMap
       ELSE IF ~Has(contextStackMap, currentRenderElement)
            THEN /\ ret' = Ret("provideContext", "invariant", NoCell, 0, key)
                 /\ UNCHANGED contextStackMap
            ELSE /\ contextStackMap' = Put(contextStackMap,
                        currentRenderElement,
                        Pushed(contextStackMap[currentRenderElement],
                               key, cell))
                 /\ ret' = Void
    /\ UNCHANGED << storeMap, indexMap, effectMap, heap, ctors, loop,
                    calls >>

\* A context's use() in an effect body.
useInEffect(key) ==
    /\ InEffect
    /\ key \in 1..Len(keys)
    /\ ret' = UseContextResult(key)
    /\ UNCHANGED << storage, heap, ctors, loop, calls >>

\* Top-level code calls withFunctional on one of its hosts while no flush
\* is pending.
CallTopLevel(maxPasses) ==
    /\ passes < maxPasses
    /\ stack = << >>
    /\ microtasks = << >>
    /\ \E host \in NamedHosts : withFunctional(host)

\* A render function calls withFunctional with no host argument: the
\* nested pass runs on a host of its own.
CallNested(maxPasses) ==
    /\ passes < maxPasses
    /\ stack # << >>
    /\ withFunctional(Null)

\* -------------------------------------------------------- specifications
\* Every operation of the library; the dispatch closures of useReducer are
\* exercised by SpecReducer.
Next ==
    \/ CallSetSignalConstructor
    \/ CallCreateContext(MaxKeys, MaxCells)
    \/ CallWithFunctional(MaxPasses)
    \/ CallRender(MaxPasses)
    \/ CallProvider(MaxPasses, MaxCells)
    \/ RenderReturns
    \/ RenderRaises
    \/ CallUseState(MaxCells, MaxSlots)
    \/ CallUseReducer(MaxCells, MaxSlots)
    \/ CallSetState
    \/ useMemo
    \/ useCallback
    \/ CallUseEffect(MaxEffects)
    \/ CallOnMount(MaxEffects)
    \/ CallOnCleanup(MaxEffects)
    \/ CallProvideContext(MaxFrames)
    \/ CallUse
    \/ EndTask
    \/ Flush
    \/ DrainDone

Spec == Init /\ [][Next]_vars

\* Render scopes and the slot store.
NextState ==
    \/ CallWithFunctional(StatePasses)
    \/ CallRender(StatePasses)
    \/ RenderReturns
    \/ RenderRaises
    \/ CallUseState(StateCells, StateSlots)
    \/ CallUseReducer(StateCells, StateSlots)
    \/ CallSetState
    \/ useMemo
    \/ useCallback

SpecState == InitReady /\ [][NextState]_vars

\* Render scopes, the effect queue and the event loop.
NextEffects ==
    \/ CallWithFunctional(FxPasses)
    \/ RenderReturns
    \/ RenderRaises
    \/ CallUseEffect(FxEffects)
    \/ CallOnMount(FxEffects)
    \/ CallOnCleanup(FxEffects)
    \/ EndTask
    \/ Flush
    \/ DrainDone

SpecEffects == InitReady /\ [][NextEffects]_vars

\* Render scopes and the context stack.
NextContext ==
    \/ CallCreateContext(CtxKeys, CtxCells)
    \/ CallWithFunctional(CtxPasses)
    \/ CallProvider(CtxPasses, CtxCells)
    \/ RenderReturns
    \/ CallUse

SpecContext == InitReady /\ [][NextContext]_vars

\* The reducers of `log` applied in order, starting from `seed`.
RECURSIVE Reduced(_, _)
Reduced(seed, log) ==
    IF log = << >> THEN seed
    ELSE Reduced(Head(log).reducer[<< seed, Head(log).action >>], Tail(log))

\* ================================================================ claims
\* C1 -- Slot identity stability.  In a pass that no nested pass on its own
\* host has disturbed, the n-th useState/useReducer call returns the cell
\* that the n-th call of the host's previous pass returned, and leaves
\* every cell as it is (the initial argument is ignored); whatever cell a
\* call returns was made for the calling host and no other.
C1_SlotIdentity ==
    [][\A initial \in Values :
        ( /\ useState(initial) \/ useReducer(initial)
          /\ stack # << >>
          /\ ~Top.reentered )
        => LET host == Top.host
               n == Len(Top.got) + 1
           IN /\ ( /\ Has(lastGot, host)
                   /\ n <= Len(lastGot[host])
                   /\ lastGot[host][n] # NoCell )
                 => /\ ret'.out = "ok"
                    /\ ret'.cell = lastGot[host][n]
                    /\ cells' = cells
              /\ ret'.out = "ok" => cells'[ret'.cell].host = host
      ]_vars

\* A later pass on a named host has just got, from its n-th call, the cell
\* that the host's previous pass got from its n-th call.
C1_Witness ==
    /\ stack # << >>
    /\ ~Top.reentered
    /\ Top.host \in NamedHosts
    /\ Has(lastGot, Top.host)
    /\ Top.got # << >>
    /\ Len(Top.got) <= Len(lastGot[Top.host])
    /\ ret.op = "useState"
    /\ ret.out = "ok"
    /\ ret.cell = lastGot[Top.host][Len(Top.got)]
    /\ ret.cell = Top.got[Len(Top.got)]

\* C2 -- Effect-flush timing.  An effect that has run was queued by a pass
\* that is no longer on the call stack; and whenever no flush is pending,
\* every effect queued by a pass that returned has run, unless a record
\* standing before it in its host's queue raises when run.
C2_FlushTiming ==
    /\ \A i \in 1..Len(ran), j \in 1..Len(stack) :
            effectFns[ran[i]].pass # stack[j].pass
    /\ microtasks = << >> =>
         \A e \in 1..Len(effectFns) :
            effectFns[e].pass \in returned =>
                \/ e \in Range(ran)
                \/ \E b \in 1..(e - 1) :
                        /\ effectFns[b].host = effectFns[e].host
                        /\ effectFns[b].body = "raise"

\* The microtask queue has just been drained and an effect queued by a
\* pass that returned has run in it.
C2_Witness ==
    /\ phase = "drain"
    /\ microtasks = << >>
    /\ \E i \in 1..Len(ran) :
            /\ effectFns[ran[i]].pass \in returned
            /\ effectFns[ran[i]].body # "raise"

\* C2 as stated: whenever no flush is pending, every effect queued by a
\* pass that returned has run.
C2_AsStated ==
    /\ \A i \in 1..Len(ran), j \in 1..Len(stack) :
            effectFns[ran[i]].pass # stack[j].pass
    /\ microtasks = << >> =>
         \A e \in 1..Len(effectFns) :
            effectFns[e].pass \in returned => e \in Range(ran)

\* C3 -- Effect ordering.  Each flush runs effects in the order of their
\* useEffect/onMount/onCleanup calls, and runs every effect of its host
\* that has not run yet, up to and including the first body that raises.
C3_EffectOrder ==
    [][Flush =>
        LET host == Head(microtasks)
            log == lastFlush'.log
        IN /\ ran' = ran \o log
           /\ \A i, j \in 1..Len(log) : i < j => log[i] < log[j]
           /\ \A e \in 1..Len(effectFns) :
                ( effectFns[e].host = host /\ e \notin Range(ran) )
                => \/ e \in Range(log)
                   \/ \E b \in Range(log) :
                        effectFns[b].body = "raise" /\ b < e
      ]_vars

\* A flush has run two effects of one pass, the one called first before
\* the one called second.
C3_Witness ==
    /\ Len(lastFlush.log) >= 2
    /\ lastFlush.log[1] < lastFlush.log[2]
    /\ effectFns[lastFlush.log[1]].pass = effectFns[lastFlush.log[2]].pass
    /\ ran = lastFlush.log

\* C3 as stated: each flush runs, in call order, every effect of its host
\* that has not run yet, none omitted.
C3_AsStated ==
    [][Flush =>
        LET host == Head(microtasks)
            log == lastFlush'.log
        IN /\ ran' = ran \o log
           /\ \A i, j \in 1..Len(log) : i < j => log[i] < log[j]
           /\ \A e \in 1..Len(effectFns) :
                ( effectFns[e].host = host /\ e \notin Range(ran) )
                => e \in Range(log)
      ]_vars

\* C4 -- Current-host save/restore.  A step that enters a withFunctional
\* call makes its host the current host; every other step in the call
\* leaves the current host alone; the step that leaves the call, by
\* return or by raise, makes the current host what it was just before the
\* call was entered (null at top level), and a raise reaches the caller.
C4_SaveRestore ==
    [][ /\ Len(stack') > Len(stack) =>
             /\ stack'[Len(stack')].previous = currentRenderElement
             /\ currentRenderElement' = stack'[Len(stack')].host
             /\ \A i \in 1..Len(stack) :
                    /\ stack'[i].previous = stack[i].previous
                    /\ stack'[i].host = stack[i].host
        /\ Len(stack') = Len(stack) =>
             /\ currentRenderElement' = currentRenderElement
             /\ \A i \in 1..Len(stack) :
                    /\ stack'[i].previous = stack[i].previous
                    /\ stack'[i].host = stack[i].host
        /\ Len(stack') < Len(stack) =>
             /\ currentRenderElement' = Top.previous
             /\ Top.previous = IF Len(stack) = 1 THEN Null
                                ELSE stack[Len(stack) - 1].host
             /\ ret'.op = "withFunctional"
             /\ RenderRaises => ret'.out = "raise"
             /\ RenderReturns => ret'.out = "ok"
        /\ stack' # << >> =>
             currentRenderElement' = stack'[Len(stack')].host
      ]_vars

\* A call nested in the first pass has raised, and the host of the first
\* pass is the current host again.
C4_Witness ==
    /\ Len(stack) = 1
    /\ Top.pass = 1
    /\ passes = 2
    /\ ret.op = "withFunctional"
    /\ ret.out = "raise"
    /\ currentRenderElement = Top.host
    /\ currentRenderElement # Null

\* C5 -- Hooks outside a render pass.  When the current host is null, a
\* call of useState, useReducer, useMemo, useCallback, useEffect, onMount,
\* onCleanup, provideContext or a context's use() fails with the
\* outside-render error and leaves the slot stores, the cursors, the
\* effect queues, the context stacks and the heap as they are.
C5_OutsideRender ==
    [][ ( /\ currentRenderElement = Null
          /\ \/ \E initial \in Values :
                    useState(initial) \/ useReducer(initial)
             \/ useMemo
             \/ useCallback
             \/ \E body \in Bodies : useEffect(body) \/ onMount(body)
             \/ onCleanup
             \/ \E key \in 1..Len(keys), cell \in 1..Len(cells) :
                    provideContext(key, cell)
             \/ \E key \in 1..Len(keys) : use(key) )
        => /\ ret'.out = "outside"
           /\ UNCHANGED << storage, heap >>
      ]_vars

\* A context's use() has just failed for want of a current host, after a
\* render pass and with a default cell registered for its key.
C5_Witness ==
    /\ currentRenderElement = Null
    /\ ret.op = "use"
    /\ ret.out = "outside"
    /\ keys[ret.key].default # NoCell
    /\ passes > 0

\* C6 -- Context shadowing.  A consumer called directly in the children of
\* a Provider of its context gets that Provider's cell, whether the
\* Provider is nested in another Provider of the same context or has had
\* one nested in it; a consumer called in the pass that called the outer
\* of two nested Providers of its context, outside both and in no other
\* Provider of that context, gets the outer's cell or the context's
\* default cell, or the missing-context error when the context has no
\* default.
C6_Shadowing ==
    ( ret.op = "use" /\ stack # << >> ) =>
        /\ ( Top.kind = "Provider" /\ Top.key = ret.key )
             => ret.out = "ok" /\ ret.cell = Top.cell
        /\ \A outer, inner \in 1..Len(cells) :
             ( /\ cells[outer].origin = "provider"
               /\ cells[outer].key = ret.key
               /\ cells[outer].pass = Top.pass
               /\ cells[inner].origin = "provider"
               /\ cells[inner].key = ret.key
               /\ cells[inner].pass = cells[outer].scope
               /\ \A i \in 1..Len(stack) :
                    ~(stack[i].kind = "Provider" /\ stack[i].key = ret.key) )
             => \/ /\ ret.out = "ok"
                   /\ ret.cell \in {outer, keys[ret.key].default}
                \/ /\ ret.out = "missing"
                   /\ keys[ret.key].default = NoCell

\* A consumer in the children of the inner of two nested Providers of one
\* context has got the inner Provider's cell, which is not the outer's.
C6_Witness ==
    /\ Len(stack) >= 2
    /\ Top.kind = "Provider"
    /\ stack[Len(stack) - 1].kind = "Provider"
    /\ stack[Len(stack) - 1].key = Top.key
    /\ ret.op = "use"
    /\ ret.key = Top.key
    /\ ret.out = "ok"
    /\ ret.cell = Top.cell
    /\ ret.cell # stack[Len(stack) - 1].cell

\* C6 as stated: the consumer outside both Providers gets the outer's cell
\* or the context's default cell.
C6_AsStated ==
    ( ret.op = "use" /\ stack # << >> ) =>
        /\ ( Top.kind = "Provider" /\ Top.key = ret.key )
             => ret.out = "ok" /\ ret.cell = Top.cell
        /\ \A outer, inner \in 1..Len(cells) :
             ( /\ cells[outer].origin = "provider"
               /\ cells[outer].key = ret.key
               /\ cells[outer].pass = Top.pass
               /\ cells[inner].origin = "provider"
               /\ cells[inner].key = ret.key
               /\ cells[inner].pass = cells[outer].scope
               /\ \A i \in 1..Len(stack) :
                    ~(stack[i].kind = "Provider" /\ stack[i].key = ret.key) )
             => /\ ret.out = "ok"
                /\ ret.cell \in {outer, keys[ret.key].default}

\* C7 -- Context inheritance, as stated.  A consumer of context A called
\* inside the children of a Provider of A, with nothing between the two
\* but WithFunctional scopes given no host and Providers of other
\* contexts, gets the cell of that Provider.
C7_AsStated ==
    ( ret.op = "use" /\ stack # << >> ) =>
        \A i \in 1..Len(stack) :
            ( /\ stack[i].kind = "Provider"
              /\ stack[i].key = ret.key
              /\ \A j \in (i + 1)..Len(stack) :
                    \/ /\ stack[j].kind = "withFunctional"
                       /\ stack[j].host \notin NamedHosts
                    \/ /\ stack[j].kind = "Provider"
                       /\ stack[j].key # ret.key )
            => ret.out = "ok" /\ ret.cell = stack[i].cell

\* C8 -- Functional mixin host, as stated.  render() of a Functional(Base)
\* instance runs with the instance as the current host, and a cell its
\* useState returns is kept for that instance.
C8_AsStated ==
    /\ \A i \in 1..Len(stack) :
            stack[i].kind = "render" => stack[i].host = stack[i].inst
    /\ ( /\ stack # << >>
         /\ Top.kind = "render"
         /\ ret.op = "useState"
         /\ ret.out = "ok" )
       => cells[ret.cell].host = Top.inst

\* C9 -- Provider value precedence.  A consumer called directly in the
\* children of Provider({value, children}) of its context gets a cell
\* holding `value` when value is neither undefined nor null, and the
\* context's defaultValue otherwise -- `undefined`, and no error, when the
\* context was created without a default.
C9_ValuePrecedence ==
    ( /\ ret.op = "use"
      /\ stack # << >>
      /\ Top.kind = "Provider"
      /\ Top.key = ret.key )
    => /\ ret.out = "ok"
       /\ Top.value \in Values => cells[ret.cell].value = Top.value
       /\ Top.value \notin Values =>
            cells[ret.cell].value = keys[ret.key].defaultValue

\* A consumer has read the value given to the Provider around it, which
\* is not the default of its context.
C9_Witness ==
    /\ ret.op = "use"
    /\ ret.out = "ok"
    /\ stack # << >>
    /\ Top.kind = "Provider"
    /\ Top.key = ret.key
    /\ Top.value \in Values
    /\ keys[ret.key].defaultValue \in Values
    /\ keys[ret.key].defaultValue # Top.value
    /\ cells[ret.cell].value = Top.value

\* C10 -- Consume fallback.  use() in a render pass whose top context
\* frame does not bind the key returns the key's default cell when there
\* is one and fails with the missing-context error when there is none; a
\* cell that use() returns was made for its key.
C10_Fallback ==
    ( ret.op = "use" /\ currentRenderElement # Null ) =>
        LET frames == IF Has(contextStackMap, currentRenderElement)
                      THEN contextStackMap[currentRenderElement]
                      ELSE << >>
            unbound == \/ frames = << >>
                       \/ ~Has(frames[Len(frames)], ret.key)
        IN /\ ( unbound /\ keys[ret.key].default # NoCell )
                => ret.out = "ok" /\ ret.cell = keys[ret.key].default
           /\ ( unbound /\ keys[ret.key].default = NoCell )
                => ret.out = "missing"
           /\ ret.out = "ok" =>
                /\ ret.cell \in 1..Len(cells)
                /\ cells[ret.cell].key = ret.key

\* A consumer of a key without default has failed with the
\* missing-context error in the children of a Provider of another key.
C10_Witness ==
    /\ ret.op = "use"
    /\ ret.out = "missing"
    /\ stack # << >>
    /\ Top.kind = "Provider"
    /\ Top.key # ret.key
    /\ Has(contextStackMap, currentRenderElement)
    /\ contextStackMap[currentRenderElement] # << >>

\* C11 -- Signal-provider setup.  A call that must construct a cell or a
\* computed (useState or useReducer on an empty slot, useMemo and
\* useCallback in a render pass, Provider, createContext with a default)
\* fails with the setup error and makes no cell when no constructor was
\* injected and no global one is set; otherwise it succeeds, and a cell it
\* makes comes from the injected constructor if there is one, else from
\* the global one.
C11_SignalSetup ==
    [][ ( \/ /\ currentRenderElement # Null
             /\ \/ /\ \E initial \in Values :
                        useState(initial) \/ useReducer(initial)
                   /\ At(IF Has(storeMap, currentRenderElement)
                         THEN storeMap[currentRenderElement] ELSE << >>,
                         indexMap[currentRenderElement]) = NoCell
                \/ useMemo
                \/ useCallback
          \/ \E key \in 1..Len(keys), value \in ProviderValues :
                Provider(key, value)
          \/ \E d \in ProviderValues \ {Undefined} : createContext(d) )
        => IF ~manualSignalCtor /\ ~globalSignal
           THEN /\ ret'.out = "setup"
                /\ cells' = cells
           ELSE /\ ret'.out = "ok"
                /\ \A c \in (Len(cells) + 1)..Len(cells') :
                        cells'[c].ctor = IF manualSignalCtor THEN "manual"
                                         ELSE "global"
      ]_vars

\* With both constructors present, useState has just returned a cell made
\* by the injected one.
C11_Witness ==
    /\ manualSignalCtor
    /\ globalSignal
    /\ ret.op = "useState"
    /\ ret.out = "ok"
    /\ cells[ret.cell].ctor = "manual"
    /\ \E c \in 1..Len(cells) : cells[c].ctor = "global"

\* Render scopes with every hook that can be interleaved with the state
\* hooks.
NextSlots ==
    \/ CallCreateContext(SlotKeys, SlotCells)
    \/ CallWithFunctional(SlotPasses)
    \/ RenderReturns
    \/ CallUseState(SlotCells, SlotSlots)
    \/ CallUseReducer(SlotCells, SlotSlots)
    \/ CallSetState
    \/ useMemo
    \/ useCallback
    \/ CallUseEffect(SlotEffects)
    \/ CallOnMount(SlotEffects)
    \/ CallOnCleanup(SlotEffects)
    \/ CallProvideContext(SlotFrames)
    \/ CallUse

SpecSlots == InitReady /\ [][NextSlots]_vars

\* C12 -- Positional slots.  In a pass that no nested pass on its own host
\* has disturbed, the k-th useState/useReducer call is bound to slot k-1
\* of the host and returns the cell kept there; useMemo, useCallback,
\* useEffect, onMount, onCleanup, provideContext and use() leave every
\* cursor and slot store as they are; a setter writes the value into its
\* own cell, readable at once, and changes nothing else.
C12_PositionalSlots ==
    [][ /\ ( /\ \E initial \in Values :
                    useState(initial) \/ useReducer(initial)
             /\ stack # << >>
             /\ ~Top.reentered )
           => /\ ret'.out = "ok"
              /\ ret'.idx = Len(Top.got)
              /\ At(storeMap'[Top.host], ret'.idx) = ret'.cell
              /\ \A i \in 0..(Len(storeMap'[Top.host]) - 1) :
                    i # ret'.idx =>
                        /\ Has(storeMap, Top.host)
                        /\ At(storeMap'[Top.host], i)
                             = At(storeMap[Top.host], i)
        /\ ( \/ useMemo
             \/ useCallback
             \/ \E body \in Bodies : useEffect(body) \/ onMount(body)
             \/ onCleanup
             \/ \E key \in 1..Len(keys), cell \in 1..Len(cells) :
                    provideContext(key, cell)
             \/ \E key \in 1..Len(keys) : use(key) )
           => UNCHANGED << storeMap, indexMap, cells >>
        /\ \A c \in 1..Len(cells), v \in Values :
             setState(c, v)
             => /\ cells'[c].value = v
                /\ Len(cells') = Len(cells)
                /\ \A o \in 1..Len(cells) : o # c => cells'[o] = cells[o]
                /\ UNCHANGED storage
      ]_vars

\* The second state hook of a pass has been bound to slot 1 although an
\* effect hook and a context hook were called in the pass.
C12_Witness ==
    /\ stack # << >>
    /\ ~Top.reentered
    /\ Len(Top.got) = 2
    /\ ret.op = "useState"
    /\ ret.out = "ok"
    /\ ret.idx = 1
    /\ storeMap[Top.host][2] = ret.cell
    /\ \E e \in 1..Len(effectFns) : effectFns[e].pass = Top.pass
    /\ contextStackMap[Top.host] # << >>

\* Render scopes, useReducer and the dispatch closures.
NextReducer ==
    \/ CallWithFunctional(RedPasses)
    \/ RenderReturns
    \/ CallUseReducer(RedCells, RedSlots)
    \/ CallDispatch(RedDispatches)

SpecReducer == InitReady /\ [][NextReducer]_vars

\* C13 -- Reducer semantics.  A slot cell holds the reducers of the
\* dispatches made on it folded, in dispatch order, over the value it was
\* made with; each dispatch writes the reducer's result for the value the
\* cell holds at that moment, succeeds with or without a current host and
\* changes no other cell and no host storage.
C13_ReducerSemantics ==
    /\ [](\A c \in 1..Len(cells) :
            cells[c].origin = "state" =>
                cells[c].value = Reduced(cells[c].seed, cells[c].log))
    /\ [][\A c \in 1..Len(cells), reducer \in Reducers, action \in Actions :
            dispatch(c, reducer, action)
            => /\ cells'[c].value = reducer[<< cells[c].value, action >>]
               /\ ret'.out = "ok"
               /\ \A o \in 1..Len(cells) : o # c => cells'[o] = cells[o]
               /\ UNCHANGED << storage, currentRenderElement >>
      ]_vars

\* After the render pass, a cell made by useReducer has had two dispatches
\* and holds their fold, which is not what the last reducer gives for the
\* initial value.
C13_Witness ==
    /\ stack = << >>
    /\ currentRenderElement = Null
    /\ \E c \in 1..Len(cells) :
        /\ cells[c].origin = "state"
        /\ Len(cells[c].log) = 2
        /\ cells[c].value = Reduced(cells[c].seed, cells[c].log)
        /\ cells[c].value #
             cells[c].log[2].reducer[<< cells[c].seed,
                                        cells[c].log[2].action >>]

C16_AsStated ==
    \A i \in 1..Len(stack) :
        ( stack[i].kind = "Provider" /\ stack[i].previous # Null ) =>
            /\ stack[i].host = stack[i].previous
            /\ Has(contextStackMap, stack[i].previous)
            /\ \E f \in 1..Len(contextStackMap[stack[i].previous]) :
                LET frame == contextStackMap[stack[i].previous][f]
                IN Has(frame, stack[i].key)
                   /\ frame[stack[i].key] = stack[i].cell

\* SpecEffects with the event loop's guarantee: a task whose call stack
\* has emptied ends, and every queued microtask is run.
SpecEffectsFair ==
    /\ SpecEffects
    /\ WF_vars(EndTask)
    /\ WF_vars(Flush)
    /\ WF_vars(DrainDone)

\* C17 -- Raising render pass, as stated.  An effect queued by a pass
\* whose render function then raised is eventually run.
C17_AsStated ==
    \A e \in 1..FxEffects :
        ( /\ e <= Len(effectFns)
          /\ effectFns[e].pass \notin returned
          /\ \A i \in 1..Len(stack) : stack[i].pass # effectFns[e].pass )
        ~> ( e \in Range(ran) )

\* C18 -- Throwing effect at flush, as stated.  When a body raises during
\* a flush, no record after it has run in that flush and the host's
\* queue is cleared; no effect is run by two flushes.
C18_AsStated ==
    /\ ( ret.op = "flush" /\ ret.out = "raise" ) =>
            /\ \A i \in 1..(Len(lastFlush.log) - 1) :
                    effectFns[lastFlush.log[i]].body # "raise"
            /\ ~Has(effectMap, lastFlush.host)
    /\ \A i, j \in 1..Len(ran) : i # j => ran[i] # ran[j]

\* C19 -- Cleanup attribution, as stated.  After a flush, each record whose
\* body ran and returned a callable holds that callable as its cleanup,
\* and every other record holds none.
C19_AsStated ==
    \A i \in 1..Len(lastFlush.records) :
        lastFlush.records[i].cleanup =
            IF /\ lastFlush.records[i].run \in Range(lastFlush.log)
               /\ effectFns[lastFlush.records[i].run].body = "cleanup"
            THEN lastFlush.records[i].run
            ELSE 0

\* C20 -- Context-stack reset point, as stated.  The context stack of a
\* host loses frames only in the step that enters a top-level
\* withFunctional call for that host; every other step, entering or
\* leaving a nested scope included, leaves the frames it holds in place.
C20_AsStated ==
    [][\A h \in DOMAIN contextStackMap :
        ( /\ Has(contextStackMap', h)
          /\ \/ Len(contextStackMap'[h]) < Len(contextStackMap[h])
             \/ SubSeq(contextStackMap'[h], 1, Len(contextStackMap[h]))
                    # contextStackMap[h] )
        => /\ stack = << >>
           /\ Len(stack') = 1
           /\ stack'[1].host = h
      ]_vars

\* C21 -- Storage mutation discipline.  The slot store, cursor, context
\* stack and effect queue of a host h change only in the step that enters
\* a withFunctional call for h and in steps taken while h is the current
\* host, with one exception: a flush queued for h, which runs when the
\* task has ended, changes the effect queue of h and nothing else.
C21_StorageDiscipline ==
    [][\A h \in DOMAIN storeMap \cup DOMAIN indexMap
                \cup DOMAIN contextStackMap \cup DOMAIN effectMap
                \cup DOMAIN storeMap' \cup DOMAIN indexMap'
                \cup DOMAIN contextStackMap' \cup DOMAIN effectMap' :
        LET Changed(m, n) == \/ Has(m, h) # Has(n, h)
                             \/ Has(m, h) /\ m[h] # n[h]
            slots == \/ Changed(storeMap, storeMap')
                     \/ Changed(indexMap, indexMap')
                     \/ Changed(contextStackMap, contextStackMap')
            queue == Changed(effectMap, effectMap')
        IN ( slots \/ queue )
           => \/ currentRenderElement = h
              \/ /\ Len(stack') > Len(stack)
                 /\ stack'[Len(stack')].host = h
                 /\ currentRenderElement' = h
              \/ /\ Flush
                 /\ Head(microtasks) = h
                 /\ ~slots
      ]_vars

\* A state hook has just filled a slot of the host of a pass nested in a
\* pass on another host, whose own slot store holds another cell.
C21_Witness ==
    /\ Len(stack) = 2
    /\ stack[1].host # Top.host
    /\ currentRenderElement = Top.host
    /\ ret.op = "useState"
    /\ ret.out = "ok"
    /\ Has(storeMap, Top.host)
    /\ storeMap[Top.host] = << ret.cell >>
    /\ Has(storeMap, stack[1].host)
    /\ storeMap[stack[1].host] # << >>
    /\ storeMap[stack[1].host] # storeMap[Top.host]

\* C21 as stated: no step taken while the current host is null or another
\* host changes the storage of h.
C21_AsStated ==
    [][\A h \in DOMAIN storeMap \cup DOMAIN indexMap
                \cup DOMAIN contextStackMap \cup DOMAIN effectMap
                \cup DOMAIN storeMap' \cup DOMAIN indexMap'
                \cup DOMAIN contextStackMap' \cup DOMAIN effectMap' :
        LET Changed(m, n) == \/ Has(m, h) # Has(n, h)
                             \/ Has(m, h) /\ m[h] # n[h]
        IN ( \/ Changed(storeMap, storeMap')
             \/ Changed(indexMap, indexMap')
             \/ Changed(contextStackMap, contextStackMap')
             \/ Changed(effectMap, effectMap') )
           => \/ currentRenderElement = h
              \/ /\ Len(stack') > Len(stack)
                 /\ stack'[Len(stack')].host = h
                 /\ currentRenderElement' = h
      ]_vars

\* C22 -- Effects run exactly once.  As long as no render function has
\* raised and no effect body raises: no effect has run twice; an effect
\* that has run is in no queue; an effect that has not run is in the queue
\* of its host, and its pass is still active or a flush for its host is
\* pending, so that once nothing is pending every effect has run once.  A
\* flush runs every record its host has accumulated over the passes made
\* so far, in order, and deletes the queue; a flush that finds no queue
\* runs nothing.
C22_ExactlyOnce ==
    /\ []( ( /\ \A p \in 1..passes :
                    \/ p \in returned
                    \/ \E i \in 1..Len(stack) : stack[i].pass = p
             /\ \A e \in 1..Len(effectFns) : effectFns[e].body # "raise" )
           => /\ \A i, j \in 1..Len(ran) : i # j => ran[i] # ran[j]
              /\ \A e \in 1..Len(effectFns) :
                    LET host == effectFns[e].host
                        queued == /\ Has(effectMap, host)
                                  /\ \E i \in 1..Len(effectMap[host]) :
                                        effectMap[host][i].run = e
                    IN IF e \in Range(ran)
                       THEN ~queued
                       ELSE /\ queued
                            /\ \/ \E i \in 1..Len(stack) :
                                    stack[i].pass = effectFns[e].pass
                               \/ host \in Range(microtasks)
              /\ ( microtasks = << >> /\ stack = << >> ) =>
                    \A e \in 1..Len(effectFns) : e \in Range(ran) )
    /\ [][ ( /\ Flush
             /\ \A e \in 1..Len(effectFns) : effectFns[e].body # "raise" )
           => LET host == Head(microtasks)
              IN /\ ~Has(effectMap', host)
                 /\ IF Has(effectMap, host)
                    THEN ran' = ran \o [i \in 1..Len(effectMap[host]) |->
                                            effectMap[host][i].run]
                    ELSE ran' = ran
         ]_vars

\* Two passes on one host returned before the first flush; that flush ran
\* the effects of both, and the second flush has just run nothing.
C22_Witness ==
    /\ returned = {1, 2}
    /\ Len(ran) = 2
    /\ ran[1] # ran[2]
    /\ effectFns[ran[1]].pass = 1
    /\ effectFns[ran[2]].pass = 2
    /\ effectFns[ran[1]].host = effectFns[ran[2]].host
    /\ lastFlush.host = effectFns[ran[1]].host
    /\ lastFlush.log = << >>
    /\ microtasks = << >>
    /\ \A e \in 1..Len(effectFns) : effectFns[e].body # "raise"

\* Render scopes nested in one another, with the hooks that write to each
\* kind of per-host storage.
NextNested ==
    \/ CallCreateContext(NestKeys, NestCells)
    \/ CallWithFunctional(NestPasses)
    \/ RenderReturns
    \/ RenderRaises
    \/ CallUseState(NestCells, NestSlots)
    \/ CallUseEffect(NestEffects)
    \/ CallProvideContext(NestFrames)

SpecNested == InitReady /\ [][NextNested]_vars

\* C23 -- Nested pass on a different host.  While a pass on host A has
\* above it on the call stack only passes on other hosts, no step -- not
\* the entry of the nested call, nor a hook called in it, nor its return
\* or raise -- changes the slot store, cursor, context stack or effect
\* queue of A; and the first state hook that A's pass calls once a nested
\* call has ended is bound to the slot after those the pass has used.
C23_NestedIsolation ==
    [][ /\ \A i \in 1..Len(stack) :
            LET A == stack[i].host
                Changed(m, n) == \/ Has(m, A) # Has(n, A)
                                 \/ Has(m, A) /\ m[A] # n[A]
            IN ( /\ \A j \in (i + 1)..Len(stack) : stack[j].host # A
                 /\ \A j \in (i + 1)..Len(stack') : stack'[j].host # A
                 /\ i < Len(stack) \/ i < Len(stack') )
               => /\ ~Changed(storeMap, storeMap')
                  /\ ~Changed(indexMap, indexMap')
                  /\ ~Changed(contextStackMap, contextStackMap')
                  /\ ~Changed(effectMap, effectMap')
        /\ ( /\ \E initial \in Values : useState(initial)
             /\ ret.op = "withFunctional"
             /\ stack # << >>
             /\ ~Top.reentered )
           => /\ currentRenderElement = Top.host
              /\ ret'.out = "ok"
              /\ ret'.idx = Len(Top.got)
              /\ ret'.idx = indexMap[Top.host]
      ]_vars

\* The pass on A used slot 0, then made a nested call on another host
\* that used slot 0 of that host and returned; the next state hook of A's
\* pass has just been bound to slot 1 of A.
C23_Witness ==
    /\ Len(stack) = 1
    /\ Top.pass = 1
    /\ returned = {2}
    /\ ret.op = "useState"
    /\ ret.out = "ok"
    /\ ret.idx = 1
    /\ Len(Top.got) = 2
    /\ \E c \in 1..Len(cells) :
        /\ cells[c].pass = 2
        /\ cells[c].origin = "state"
        /\ cells[c].host # Top.host
        /\ c \notin Range(storeMap[Top.host])
    /\ Len(storeMap[Top.host]) = 2

\* Render scopes, the flush, and effect bodies that call hooks.
NextInEffect ==
    \/ CallCreateContext(BodyKeys, BodyCells)
    \/ CallWithFunctional(BodyPasses)
    \/ RenderReturns
    \/ RenderRaises
    \/ CallUseEffect(BodyEffects)
    \/ EndTask
    \/ Flush
    \/ DrainDone
    \/ /\ SlotsLeft(BodyCells, BodySlots)
       /\ \E initial \in Values : useStateInEffect(initial)
    \/ /\ Len(effectFns) < BodyEffects
       /\ \E body \in Bodies : useEffectInEffect(body)
    \/ /\ Has(contextStackMap, currentRenderElement) =>
            Len(contextStackMap[currentRenderElement]) < BodyFrames
       /\ \E key \in 1..Len(keys), cell \in 1..Len(cells) :
            provideContextInEffect(key, cell)
    \/ \E key \in 1..Len(keys) : useInEffect(key)

SpecInEffect == InitReady /\ [][NextInEffect]_vars

\* C24 -- Effect bodies run outside any render scope.  While microtasks
\* are drained no withFunctional call is active and the current host is
\* null; useState, useEffect, provideContext or a context's use() called
\* directly by an effect body fails with the outside-render error and
\* changes no slot store, cursor, context stack, effect queue or flush
\* queue, and makes no cell and no effect record.
C24_OutsideScope ==
    /\ [](phase = "drain" =>
            currentRenderElement = Null /\ stack = << >>)
    /\ [][ ( \/ \E initial \in Values : useStateInEffect(initial)
             \/ \E body \in Bodies : useEffectInEffect(body)
             \/ \E key \in 1..Len(keys), cell \in 1..Len(cells) :
                    provideContextInEffect(key, cell)
             \/ \E key \in 1..Len(keys) : useInEffect(key) )
           => /\ ret'.out = "outside"
              /\ UNCHANGED << storage, heap, microtasks >>
         ]_vars

\* The flush of a pass that queued an effect has run it, and a useEffect
\* called by the body has just failed for want of a current host; the
\* host's slot of the effect queue was not filled again.
C24_Witness ==
    /\ phase = "drain"
    /\ lastFlush.log # << >>
    /\ ret.op = "useEffect"
    /\ ret.out = "outside"
    /\ currentRenderElement = Null
    /\ Len(effectFns) < BodyEffects
    /\ ~Has(effectMap, lastFlush.host)

\* Tasks that make one top-level pass on a caller's host, with no flush
\* pending, and passes nested in it on other hosts; the effect queue and
\* the event loop.
NextOrder ==
    \/ CallTopLevel(OrdPasses)
    \/ CallNested(OrdPasses)
    \/ RenderReturns
    \/ RenderRaises
    \/ CallUseEffect(OrdEffects)
    \/ EndTask
    \/ Flush
    \/ DrainDone

SpecOrder == InitReady /\ [][NextOrder]_vars

\* C25 -- Inner-before-outer flush order.  When the flush of a top-level
\* pass on host A runs effects, each effect queued on another host by a
\* pass that was nested in a pass on A and returned has already run,
\* unless an effect standing before it in the queue of its host raises
\* when run; so whatever runs of the nested passes' effects runs before
\* every effect of A, those queued before the nested call included.
C25_InnerFirst ==
    [][ ( /\ Flush
          /\ Head(microtasks) \in NamedHosts
          /\ Has(effectMap, Head(microtasks)) )
        => \A b \in 1..Len(effectFns) :
            ( /\ effectFns[b].host \notin NamedHosts
              /\ effectFns[b].pass \in returned )
            => \/ b \in Range(ran)
               \/ \E r \in 1..(b - 1) :
                    /\ effectFns[r].host = effectFns[b].host
                    /\ effectFns[r].body = "raise"
                    /\ r \in Range(ran)
      ]_vars

\* The pass on A queued an effect and then made a nested call that queued
\* one on its own host; both returned, and the flushes have run the
\* nested pass's effect first and A's second.
C25_Witness ==
    /\ Len(effectFns) >= 2
    /\ effectFns[1].host \in NamedHosts
    /\ effectFns[1].pass = 1
    /\ effectFns[2].host \notin NamedHosts
    /\ effectFns[2].pass = 2
    /\ returned = {1, 2}
    /\ ran = << 2, 1 >>
    /\ microtasks = << >>

\* C25 as stated: when the flush of the top-level pass on A runs effects,
\* every effect queued on another host by a nested pass that returned
\* has run.
C25_AsStated ==
    [][ ( /\ Flush
          /\ Head(microtasks) \in NamedHosts
          /\ Has(effectMap, Head(microtasks)) )
        => \A b \in 1..Len(effectFns) :
            ( /\ effectFns[b].host \notin NamedHosts
              /\ effectFns[b].pass \in returned )
            => b \in Range(ran)
      ]_vars
====
